---------------------------- MODULE Spec2Model ----------------------------
(***************************************************************************)
(* tfl-nexus: the Phase 2B disruption monitor (the poll loop, the poll     *)
(* cycle and its store session), the severity learner, the disruption      *)
(* classifier, the backfill of historical delays and the transfer          *)
(* statistics.                                                             *)
(*                                                                         *)
(* Text fields are sequences of lower-cased words; timestamps are natural  *)
(* numbers of an abstract clock; a SQL NULL / Python None is NULL.         *)
(***************************************************************************)
EXTENDS Integers, Sequences, FiniteSets, TLC

VARIABLES
    running,                \* DisruptionMonitor.running
    poll_count,             \* DisruptionMonitor.poll_count, kept modulo SamplePeriod
    pc,                     \* position of the monitor in start()/poll_cycle()
    clock,                  \* the wall clock (datetime.now)
    db,                     \* committed rows of live_disruptions, in insertion order
    sess,                   \* the open session's copies of the rows of db (the identity map)
    pending,                \* rows added to the open session and not yet flushed
    disruptions,            \* the payload fetched by the current (or last) poll cycle
    idx,                    \* index of the payload item the for loop is at
    active_disruption_ids,  \* poll_cycle's set of fingerprints seen in this cycle
    stats,                  \* poll_cycle's counters new/updated/resolved/errors
    history,                \* in a cycle: "repeat" when its payload is that of the cycle
                            \* committed just before, else "fresh"; after its commit:
                            \* "repeated", else "committed"
    last_commit,            \* clock value at the latest commit of a poll cycle
    severity,               \* committed rows of severity_levels (mode tube), by severity_level
    samples,                \* committed rows of realtime_delay_samples, in batches
    lpc,                    \* position of the learner in sample_delays_during_disruptions
    today,                  \* the learner's wall clock, in days
    runs,                   \* sampling runs made so far
    item,                   \* the disruption handed to analyze_disruption
    classification,         \* <<what analyze_disruption returned for item>>, <<>> before
    resolved,               \* rows of live_disruptions as the backfill reads them
    hist,                   \* committed rows of historical_delays, in insertion order
    hpending,               \* historical_delays rows added to the open session
    todo,                   \* the disruptions the backfill run has still to process
    bpc,                    \* position of the backfill: "idle" or "derive"
    bruns,                  \* backfill runs made so far
    tstats,                 \* committed rows of transfer_statistics
    tsess,                  \* the open session's copies of the rows of tstats
    tpending,               \* transfer_statistics rows added to the open session
    ttodo,                  \* the (stop, from, to) triples the run has still to process
    tpc,                    \* position of the statistics run: "idle" or "compute"
    truns,                  \* statistics runs made so far
    gpc,                    \* position of TflClient._execute_request
    outcomes,               \* what each attempt of the request met, in order
    waits,                  \* the back-off sleeps of the request, in seconds, in order
    executed                \* history: the poll cycles begun so far, modulo SamplePeriod,
                            \* where they are counted (CountedCycle)

vars == <<running, poll_count, pc, clock, db, sess, pending, disruptions, idx,
          active_disruption_ids, stats, history, last_commit,
          severity, samples, lpc, today, runs,
          item, classification, resolved, hist, hpending, todo, bpc, bruns,
          tstats, tsess, tpending, ttodo, tpc, truns,
          gpc, outcomes, waits, executed>>

\* SQL NULL, Python None: no timestamp.
NULL == -1

\* Largest clock value; the clock stays there once it is reached.
MaxTime == 2

\* Largest number of disruptions in one upstream payload.
MaxItems == 2

\* The longest payload of the poll loop under fairness.
LoopItems == 1

\* start(): "if self.poll_count % 10 == 0".
SamplePeriod == 10

\* Largest value of the learner's clock, in days.
MaxDay == 1

\* Largest number of sampling runs explored.
MaxRuns == 3

\* The resolution of the backfill's clock: ticks in one hour.
TicksPerHour == 2

\* Latest start time, in ticks, of a disruption the backfill reads.
MaxStart == 1

\* Largest number of rows of live_disruptions the backfill reads.
MaxResolved == 2

\* Largest number of backfill runs explored.
MaxBackfills == 2

\* Latest timestamp, in hours, of the historical delays the statistics read.
MaxStamp == 12

\* Largest number of statistics runs explored.
MaxTransfers == 2

Min(a, b) == IF a < b THEN a ELSE b

Range(s) == {s[i] : i \in 1..Len(s)}

---------------------------------------------------------------------------
(* DisruptionAnalyzer *)

\* keyword is a contiguous run of words of text ("keyword in combined_text").
Contains(text, keyword) ==
    \E i \in 0..(Len(text) - Len(keyword)) :
        \A j \in 1..Len(keyword) : text[i + j] = keyword[j]

suspension_keywords ==
    { <<"suspended">>, <<"no", "service">>, <<"closed">>, <<"not", "running">>,
      <<"not", "stopping">>, <<"service", "suspended">> }

partial_keywords ==
    { <<"part", "suspended">>, <<"partially", "suspended">>, <<"section", "closed">>,
      <<"between">>, <<"part", "closure">>, <<"partial", "closure">> }

\* Python's None where the value is otherwise a string.
None == "None"

\* The words of the payloads that are not lower-case, and their lower-case forms.
Capitals == [w \in {"Suspended", "Between"} |->
                IF w = "Suspended" THEN "suspended" ELSE "between"]

\* A lower() that leaves the text as it is.
lower_identity(text) == text

\* str.lower(), word by word.
lower(text) ==
    [i \in DOMAIN text |-> IF text[i] \in DOMAIN Capitals THEN Capitals[text[i]] ELSE text[i]]

\* One field of the f-string: an empty field leaves an empty word between the
\* two spaces around it.
Field(text) == IF text = <<>> THEN <<"">> ELSE lower(text)

\* f"{description} {summary} {closure_text}"
combined_text(d) == Field(d.description) \o Field(d.summary) \o Field(d.closureText)

\* The index of the entry sorted() puts first: least ordinal, earliest on a tie.
FirstByOrdinal(sequence) ==
    CHOOSE i \in 1..Len(sequence) :
        \A j \in 1..Len(sequence) :
            \/ sequence[i].ordinal < sequence[j].ordinal
            \/ (sequence[i].ordinal = sequence[j].ordinal /\ i <= j)

\* The index of the entry sorted() puts last: greatest ordinal, latest on a tie.
LastByOrdinal(sequence) ==
    CHOOSE i \in 1..Len(sequence) :
        \A j \in 1..Len(sequence) :
            \/ sequence[i].ordinal > sequence[j].ordinal
            \/ (sequence[i].ordinal = sequence[j].ordinal /\ i >= j)

\* routes: the routeSectionNaptanEntrySequence of each affected route.
RECURSIVE _extract_section_naptans(_)
_extract_section_naptans(routes) ==
    IF routes = <<>> THEN <<None, None>>
    ELSE LET sequence     == Head(routes)
             start_naptan == sequence[FirstByOrdinal(sequence)].naptanId
             end_naptan   == sequence[LastByOrdinal(sequence)].naptanId
         IN  IF sequence # <<>> /\ start_naptan # None /\ end_naptan # None
             THEN <<start_naptan, end_naptan>>
             ELSE _extract_section_naptans(Tail(routes))

\* A full suspension whenever a suspension keyword is present.
is_full_suspension_any(has_suspension, has_partial) == has_suspension

is_full_suspension(has_suspension, has_partial) == has_suspension /\ ~has_partial

is_partial_suspension(has_suspension, has_partial) == has_suspension /\ has_partial

\* The section is looked for whatever the classification.
ExtractsSection_always(partial) == TRUE

\* "if is_partial_suspension:"
ExtractsSection(partial) == partial

analyze_disruption(d) ==
    LET has_suspension == \E k \in suspension_keywords : Contains(combined_text(d), k)
        has_partial    == \E k \in partial_keywords : Contains(combined_text(d), k)
        full           == is_full_suspension(has_suspension, has_partial)
        partial        == is_partial_suspension(has_suspension, has_partial)
        section        == IF ExtractsSection(partial)
                          THEN _extract_section_naptans(d.routes)
                          ELSE <<None, None>>
    IN  [ is_full_suspension    |-> full,
          is_partial_suspension |-> partial,
          start_naptan          |-> section[1],
          end_naptan            |-> section[2] ]

\* The set of lineId values of affectedRoutes (a Python set: duplicates collapse).
extract_line_ids(d) == d.lineIds

---------------------------------------------------------------------------
(* The store's services and the upstream payloads *)

\* _build_service_map: tfl_line_id -> service_id of the services table.
service_map == [l \in {"victoria", "central"} |-> IF l = "victoria" THEN 1 ELSE 2]

KnownLines == DOMAIN service_map

\* lastUpdate as the API may deliver it: absent, not ISO-8601, ISO without an
\* offset (naive), ISO with a Z/offset (aware).
LastUpdate(kind, t) == [kind |-> kind, t |-> t]

Item(created, lines, lu, summary, malformed) ==
    [ category    |-> "RealTime",
      type        |-> "lineInfo",
      created     |-> created,
      description |-> <<"minor", "delays">>,
      summary     |-> summary,
      closureText |-> <<>>,
      lineIds     |-> lines,
      routes      |-> <<>>,
      lastUpdate  |-> lu,
      malformed   |-> malformed ]

\* The disruptions an upstream payload is drawn from.
Items ==
    { Item(1, {"victoria"}, LastUpdate("aware", 1), <<"signal", "failure">>, FALSE),
      Item(1, {"victoria"}, LastUpdate("aware", 2), <<"line", "suspended">>, FALSE),
      Item(2, {"victoria", "dlr"}, LastUpdate("absent", NULL), <<"signal", "failure">>, FALSE) }

SeqsUpTo(S, n) == UNION { [1..k -> S] : k \in 0..n }

Payloads == SeqsUpTo(Items, MaxItems)

\* TflClient.get_disruptions_by_mode: the payloads the gateway may return.
get_disruptions_by_mode == Payloads

---------------------------------------------------------------------------
(* DisruptionMonitor: per-disruption processing *)

\* description[:50]: the leading words of the description.
Truncate(description) == SubSeq(description, 1, Min(Len(description), 2))

\* A fingerprint that leaves the service out.
_generate_disruption_id_shared(d, service_id) ==
    <<0, d.category, d.type, d.created, Truncate(d.description)>>

_generate_disruption_id(d, service_id) ==
    <<service_id, d.category, d.type, d.created, Truncate(d.description)>>

_parse_timestamp(ts) ==
    IF ts.kind \in {"absent", "invalid"} THEN NULL ELSE ts.t

\* A staleness test that also passes an equal timestamp.
_should_update_disruption_inclusive(existing, d) ==
    IF d.lastUpdate.kind \in {"absent", "invalid", "naive"} THEN TRUE
    ELSE IF existing.last_update = NULL THEN TRUE
    ELSE d.lastUpdate.t >= existing.last_update

_should_update_disruption(existing, d) ==
    IF d.lastUpdate.kind = "absent" THEN TRUE
    ELSE IF d.lastUpdate.kind = "invalid" THEN TRUE
    ELSE IF existing.last_update = NULL THEN TRUE
    ELSE IF d.lastUpdate.kind = "naive" THEN TRUE
    ELSE d.lastUpdate.t > existing.last_update

_create_disruption(tfl_id, service_id, d, analysis) ==
    [ tfl_disruption_id     |-> tfl_id,
      service_id            |-> service_id,
      description           |-> d.description,
      summary               |-> d.summary,
      closure_text          |-> d.closureText,
      is_full_suspension    |-> analysis.is_full_suspension,
      is_partial_suspension |-> analysis.is_partial_suspension,
      severity_level        |-> NULL,
      last_update           |-> _parse_timestamp(d.lastUpdate),
      actual_end_time       |-> NULL ]

_update_disruption(row, d, analysis) ==
    [ row EXCEPT !.description           = d.description,
                 !.summary               = d.summary,
                 !.closure_text          = d.closureText,
                 !.is_full_suspension    = analysis.is_full_suspension,
                 !.is_partial_suspension = analysis.is_partial_suspension,
                 !.last_update           = _parse_timestamp(d.lastUpdate) ]

\* session.query(LiveDisruption).filter_by(tfl_disruption_id=tfl_id).first():
\* the session does not autoflush, so only flushed rows are found.
Existing(rows, tfl_id) == {i \in 1..Len(rows) : rows[i].tfl_disruption_id = tfl_id}

\* The known services a disruption fans out to, and their fingerprints.
KnownServices(d) == {service_map[l] : l \in extract_line_ids(d) \cap KnownLines}

Fingerprints(d) == {_generate_disruption_id(d, s) : s \in KnownServices(d)}

\* A set as a sequence, in the order of CHOOSE.
RECURSIVE SetToSeq(_)
SetToSeq(S) ==
    IF S = {} THEN <<>>
    ELSE LET x == CHOOSE y \in S : TRUE IN <<x>> \o SetToSeq(S \ {x})

\* _process_disruption on a well-formed disruption: the rows of the session
\* after it, the rows it added, and its result dictionary.
_process_disruption(rows, d) ==
    LET analysis == analyze_disruption(d)
        ids      == Fingerprints(d)
        found    == {f \in ids : Existing(rows, f) # {}}
        stale(i) == /\ rows[i].tfl_disruption_id \in ids
                    /\ _should_update_disruption(rows[i], d)
        service(f) == CHOOSE s \in KnownServices(d) : _generate_disruption_id(d, s) = f
        created  == SetToSeq({_create_disruption(f, service(f), d, analysis) :
                                 f \in ids \ found})
    IN  [ rows       |-> [i \in 1..Len(rows) |->
                             IF stale(i) THEN _update_disruption(rows[i], d, analysis)
                             ELSE rows[i]],
          added      |-> created,
          new        |-> Len(created),
          updated    |-> Cardinality({i \in 1..Len(rows) : stale(i)}),
          active_ids |-> ids ]

\* A sweep whose filter is in_(active_ids) for ~in_(active_ids).
Stale_inverted(rows, active_ids) ==
    {i \in 1..Len(rows) : /\ rows[i].actual_end_time = NULL
                          /\ rows[i].tfl_disruption_id \in active_ids}

\* A sweep that leaves the filter on active_ids out.
Stale_all(rows, active_ids) ==
    {i \in 1..Len(rows) : rows[i].actual_end_time = NULL}

\* The rows _resolve_missing_disruptions stamps: open and not in active_ids.
Stale(rows, active_ids) ==
    {i \in 1..Len(rows) : /\ rows[i].actual_end_time = NULL
                          /\ rows[i].tfl_disruption_id \notin active_ids}

_resolve_missing_disruptions(rows, active_ids, now) ==
    [i \in 1..Len(rows) |->
        IF i \in Stale(rows, active_ids)
        THEN [rows[i] EXCEPT !.actual_end_time = now]
        ELSE rows[i]]

\* live_disruptions.tfl_disruption_id is UNIQUE: the flush of rows passes or
\* raises IntegrityError.
UniqueIds(rows) ==
    \A i, j \in 1..Len(rows) :
        rows[i].tfl_disruption_id = rows[j].tfl_disruption_id => i = j

---------------------------------------------------------------------------
(* SeverityLearner.  Delays are in seconds; estimated_delay_minutes and    *)
(* confidence_score are kept in hundredths (12.0 minutes is 1200, 0.3 is   *)
(* 30), so that round(x, 2) is a rounding to an integer.                   *)

high_confidence_threshold == 90

min_samples_for_update == 20

\* _sample_disruption_delays: "if severity_record.sample_count >= 100".
SampleCountCap == 100

\* "old_estimate = severity.estimated_delay_minutes or 10.0".
DefaultEstimate == 1000

\* "new_confidence = min(old_confidence + 0.05, 0.95)".
ConfidenceStep == 5

ConfidenceCap == 95

\* "sample_weight = min(len(recent_samples) * 0.1, 5.0)".
WeightPerSample == 10

WeightCap == 500

\* "timedelta(days=7)".
WindowDays == 7

\* SeverityLevel.confidence_score of a new record.
InitialConfidence == 30

\* initial_delay_map, for the levels 0..10.
initial_delay_map ==
    [level \in 0..10 |->
        <<0, 100, 300, 500, 800, 1000, 1200, 1500, 2000, 2500, NULL>>[level + 1]]

\* TflClient.get_severity_codes(): the catalog entries of mode tube.
get_severity_codes ==
    { [severityLevel |-> 0, description |-> <<"special", "service">>],
      [severityLevel |-> 2, description |-> <<"suspended">>],
      [severityLevel |-> 6, description |-> <<"severe", "delays">>] }

\* 'suspend', 'closed', 'closure', 'no service' occur in the description.
IsSuspensionText(description) ==
    \/ \E i \in 1..Len(description) :
          description[i] \in {"suspend", "suspended", "suspension", "closed", "closure"}
    \/ Contains(description, <<"no", "service">>)

\* _load_severity_definitions on an empty table.
_load_severity_definitions ==
    [level \in {c.severityLevel : c \in get_severity_codes} |->
        LET c == CHOOSE x \in get_severity_codes : x.severityLevel = level
            is_suspension == IsSuspensionText(c.description)
        IN  [ estimated_delay_minutes |->
                  IF is_suspension THEN NULL
                  ELSE IF level \in DOMAIN initial_delay_map THEN initial_delay_map[level]
                  ELSE DefaultEstimate,
              is_suspension    |-> is_suspension,
              sample_count     |-> 0,
              confidence_score |-> InitialConfidence,
              last_updated     |-> 0 ]]

\* The open disruptions a sampling run looks at, as indexes of rows.
ActiveDisruptions(rows) == {i \in 1..Len(rows) : rows[i].actual_end_time = NULL}

\* Sampling without the test of confidence and sample count.
Sampled_ungated(rows, sev, i) == rows[i].severity_level \in DOMAIN sev

\* _sample_disruption_delays goes on to fetch arrivals for row i: its severity
\* record exists and is not both confident and well-sampled.
Sampled(rows, sev, i) ==
    /\ rows[i].severity_level \in DOMAIN sev
    /\ ~ ( /\ sev[rows[i].severity_level].confidence_score >= high_confidence_threshold
           /\ sev[rows[i].severity_level].sample_count >= SampleCountCap )

\* What the arrivals at the stops of one disruption yield in one run: count
\* delay samples of delay seconds each (count 0: no stop, no gap, or a failure).
BatchInputs ==
    { [count |-> 0, delay |-> 0],
      [count |-> 10, delay |-> 300],
      [count |-> 20, delay |-> 120] }

\* The RealtimeDelaySample rows one run adds, given the yield of each sampled row.
NewSamples(rows, sev, yield, now) ==
    LET who == {i \in ActiveDisruptions(rows) : Sampled(rows, sev, i) /\ yield[i].count > 0}
    IN  SetToSeq({ [ disruption_id          |-> i,
                     measured_delay_seconds |-> yield[i].delay,
                     count                  |-> yield[i].count,
                     timestamp              |-> now ] : i \in who })

Yields(rows, sev) ==
    [{i \in ActiveDisruptions(rows) : Sampled(rows, sev, i)} -> BatchInputs]

\* recent_samples of a level: joined to a disruption of that level, in the window.
RecentSamples(smp, rows, level, now) ==
    SelectSeq(smp, LAMBDA b : /\ rows[b.disruption_id].severity_level = level
                              /\ b.timestamp >= now - WindowDays)

\* len(recent_samples)
RECURSIVE SampleCount(_)
SampleCount(recent) ==
    IF recent = <<>> THEN 0 ELSE Head(recent).count + SampleCount(Tail(recent))

\* sum(s.measured_delay_seconds for s in recent_samples)
RECURSIVE SampleSum(_)
SampleSum(recent) ==
    IF recent = <<>> THEN 0
    ELSE Head(recent).count * Head(recent).measured_delay_seconds + SampleSum(Tail(recent))

\* a / b rounded to the nearest integer.
RoundDiv(a, b) == (2 * a + b) \div (2 * b)

\* The weighted blend: old_estimate and confidence in hundredths, n samples
\* whose delays sum to total seconds; the result in hundredths of a minute.
Blend(old_estimate, old_confidence, n, total) ==
    LET sample_weight == Min(n * WeightPerSample, WeightCap)
    IN  RoundDiv(old_estimate * old_confidence * 60 * n + 100 * total * sample_weight,
                 60 * n * (old_confidence + sample_weight))

\* "severity.estimated_delay_minutes or 10.0": None and 0.0 are both falsy.
OldEstimate(estimated_delay_minutes) ==
    IF estimated_delay_minutes = NULL \/ estimated_delay_minutes = 0
    THEN DefaultEstimate
    ELSE estimated_delay_minutes

\* The confidence step without its cap.
NewConfidence_uncapped(old_confidence) == old_confidence + ConfidenceStep

NewConfidence(old_confidence) == Min(old_confidence + ConfidenceStep, ConfidenceCap)

\* An update rule that rewrites every level with a sample in the window.
Updated_any(sev, smp, rows, now) ==
    {level \in DOMAIN sev :
        /\ ~sev[level].is_suspension
        /\ SampleCount(RecentSamples(smp, rows, level, now)) >= 1}

\* The levels the update rule rewrites.
Updated(sev, smp, rows, now) ==
    {level \in DOMAIN sev :
        /\ ~sev[level].is_suspension
        /\ SampleCount(RecentSamples(smp, rows, level, now)) >= min_samples_for_update}

_update_severity_estimates(sev, smp, rows, now) ==
    [level \in DOMAIN sev |->
        IF level \in Updated(sev, smp, rows, now)
        THEN LET recent == RecentSamples(smp, rows, level, now)
             IN  [ sev[level] EXCEPT
                     !.estimated_delay_minutes =
                         Blend(OldEstimate(sev[level].estimated_delay_minutes),
                               sev[level].confidence_score,
                               SampleCount(recent), SampleSum(recent)),
                     !.confidence_score = NewConfidence(sev[level].confidence_score),
                     !.sample_count = SampleCount(recent),
                     !.last_updated = now ]
        ELSE sev[level]]

---------------------------------------------------------------------------
(* DisruptionMonitor: the poll loop and the poll cycle *)

NoStats == [new |-> 0, updated |-> 0, resolved |-> 0, errors |-> 0]

locals == <<sess, pending, idx, active_disruption_ids, stats>>

learner == <<severity, samples, lpc, today, runs>>

classifier == <<item, classification>>

backfill == <<resolved, hist, hpending, todo, bpc, bruns>>

transfer == <<tstats, tsess, tpending, ttodo, tpc, truns>>

gateway == <<gpc, outcomes, waits>>

\* No request of the gateway client is followed on its own.
NoRequest ==
    /\ gpc = "idle"
    /\ outcomes = <<>>
    /\ waits = <<>>

\* The monitor and the learner run without the batch jobs: nothing is
\* classified on its own, the historical delays and the statistics are empty.
NoBatch ==
    /\ item = NULL
    /\ classification = <<>>
    /\ resolved = <<>>
    /\ hist = <<>>
    /\ hpending = <<>>
    /\ todo = <<>>
    /\ bpc = "idle"
    /\ bruns = 0
    /\ tstats = <<>>
    /\ tsess = <<>>
    /\ tpending = <<>>
    /\ ttodo = <<>>
    /\ tpc = "idle"
    /\ truns = 0
    /\ NoRequest
    /\ executed = 0

monitor == <<running, poll_count, pc, clock, db, disruptions, history, last_commit, locals>>

\* The locals of poll_cycle once it has returned or raised; the session is closed.
CycleOver ==
    /\ sess' = <<>>
    /\ pending' = <<>>
    /\ idx' = 0
    /\ active_disruption_ids' = {}
    /\ stats' = NoStats

Init ==
    /\ running = FALSE
    /\ poll_count = 0
    /\ pc = "start"
    /\ clock = 0
    /\ db = <<>>
    /\ sess = <<>>
    /\ pending = <<>>
    /\ disruptions = <<>>
    /\ idx = 0
    /\ active_disruption_ids = {}
    /\ stats = NoStats
    /\ history = "fresh"
    /\ last_commit = 0
    /\ severity = <<>>
    /\ samples = <<>>
    /\ lpc = "idle"
    /\ today = 0
    /\ runs = 0
    /\ NoBatch

\* start(): self.running = True, _initialize_metadata() (the severity table is
\* seeded when it is empty), then the loop.
Start ==
    /\ pc = "start"
    /\ running' = TRUE
    /\ severity' = IF DOMAIN severity = {} THEN _load_severity_definitions ELSE severity
    /\ pc' = "loop"
    /\ UNCHANGED <<poll_count, clock, db, disruptions, history, last_commit, locals>>
    /\ UNCHANGED <<samples, lpc, today, runs>>
    /\ UNCHANGED <<classifier, backfill, transfer, gateway, executed>>

\* stop(), called by _signal_handler on SIGINT/SIGTERM.
Stop ==
    /\ running
    /\ running' = FALSE
    /\ UNCHANGED <<poll_count, pc, clock, db, disruptions, history, last_commit, locals>>
    /\ UNCHANGED learner
    /\ UNCHANGED <<classifier, backfill, transfer, gateway, executed>>

\* A loop that does not test the flag.
loop_forever == TRUE

\* The test of "while self.running".
loop_condition == running

\* "while self.running" is false: start() returns.
LoopExit ==
    /\ pc = "loop"
    /\ ~loop_condition
    /\ pc' = "stopped"
    /\ UNCHANGED <<running, poll_count, clock, db, disruptions, history, last_commit, locals>>
    /\ UNCHANGED learner
    /\ UNCHANGED <<classifier, backfill, transfer, gateway, executed>>

\* "while self.running" is true and poll_cycle() is called.
BeginCycle ==
    /\ pc = "loop"
    /\ loop_condition
    /\ pc' = "poll"
    /\ UNCHANGED <<running, poll_count, clock, db, disruptions, history, last_commit, locals>>
    /\ UNCHANGED learner
    /\ UNCHANGED <<classifier, backfill, transfer, gateway, executed>>

\* poll_cycle: a payload of payloads is fetched and the session opened.
Fetch(payloads) ==
    /\ pc = "poll"
    /\ \E p \in payloads :
          /\ disruptions' = p
          /\ history' = IF history \in {"committed", "repeated"} /\ p = disruptions
                        THEN "repeat" ELSE "fresh"
    /\ sess' = db
    /\ pending' = <<>>
    /\ idx' = 1
    /\ active_disruption_ids' = {}
    /\ stats' = NoStats
    /\ pc' = "process"
    /\ UNCHANGED <<running, poll_count, clock, db, last_commit>>
    /\ UNCHANGED learner
    /\ UNCHANGED <<classifier, backfill, transfer, gateway, executed>>

PollFetch == Fetch(get_disruptions_by_mode)

\* get_disruptions_by_mode raises (retries exhausted): poll_cycle re-raises.
FetchFail ==
    /\ pc = "poll"
    /\ pc' = "failed"
    /\ history' = "fresh"
    /\ UNCHANGED <<running, poll_count, clock, db, disruptions, last_commit, locals>>
    /\ UNCHANGED learner
    /\ UNCHANGED <<classifier, backfill, transfer, gateway, executed>>

\* One turn of "for disruption_data in disruptions", its try/except included.
\* An error of one disruption that ends the cycle.
after_item_error_fatal(at) == "failed"

\* "except Exception" inside the for loop: the loop goes on.
after_item_error(at) == at

ProcessItem ==
    /\ pc = "process"
    /\ idx <= Len(disruptions)
    /\ LET d == disruptions[idx]
           r == _process_disruption(sess, d)
       IN  IF extract_line_ids(d) = {}
           THEN UNCHANGED <<pc, sess, pending, active_disruption_ids, stats>>
           ELSE IF d.malformed
           THEN /\ stats' = [stats EXCEPT !.errors = @ + 1]
                /\ pc' = after_item_error(pc)
                /\ UNCHANGED <<sess, pending, active_disruption_ids>>
           ELSE /\ sess' = r.rows
                /\ pending' = pending \o r.added
                /\ active_disruption_ids' = active_disruption_ids \cup r.active_ids
                /\ stats' = [stats EXCEPT !.new = @ + r.new, !.updated = @ + r.updated]
                /\ UNCHANGED pc
    /\ idx' = idx + 1
    /\ UNCHANGED <<running, poll_count, clock, db, disruptions, history, last_commit>>
    /\ UNCHANGED learner
    /\ UNCHANGED <<classifier, backfill, transfer, gateway, executed>>

\* After the loop: the resolution sweep.
Sweep ==
    /\ pc = "process"
    /\ idx > Len(disruptions)
    /\ sess' = _resolve_missing_disruptions(sess, active_disruption_ids, clock)
    /\ stats' = [stats EXCEPT !.resolved = Cardinality(Stale(sess, active_disruption_ids))]
    /\ pc' = "commit"
    /\ UNCHANGED <<running, poll_count, clock, db, pending, disruptions, idx,
                   active_disruption_ids, history, last_commit>>
    /\ UNCHANGED learner
    /\ UNCHANGED <<classifier, backfill, transfer, gateway, executed>>

\* Time passes between the sweep and the commit.
Tick ==
    /\ pc = "commit"
    /\ clock < MaxTime
    /\ clock' = clock + 1
    /\ UNCHANGED <<running, poll_count, pc, db, disruptions, history, last_commit, locals>>
    /\ UNCHANGED learner
    /\ UNCHANGED <<classifier, backfill, transfer, gateway, executed>>

\* A session that flushes what it holds when it fails.
rollback_flushed(committed, dirty, new) == dirty \o new

\* get_session's "except Exception: session.rollback(); raise": the store keeps
\* its committed rows, the session's dirty and new rows are dropped.
rollback(committed, dirty, new) == committed

\* poll_cycle's session.commit(): the flush of the dirty and the new rows; on
\* IntegrityError get_session rolls back and the cycle raises.
Commit ==
    /\ pc = "commit"
    /\ IF UniqueIds(sess \o pending)
       THEN /\ db' = sess \o pending
            /\ pc' = "exit"
            /\ history' = IF history = "repeat" THEN "repeated" ELSE "committed"
            /\ last_commit' = clock
            /\ UNCHANGED locals
       ELSE /\ db' = rollback(db, sess, pending)
            /\ pc' = "failed"
            /\ history' = "fresh"
            /\ CycleOver
            /\ UNCHANGED last_commit
    /\ UNCHANGED <<running, poll_count, clock, disruptions>>
    /\ UNCHANGED learner
    /\ UNCHANGED <<classifier, backfill, transfer, gateway, executed>>

\* The store fails under a query, the sweep or a commit: get_session rolls back
\* and re-raises, poll_cycle re-raises. At "exit" the cycle's own commit is done.
StoreFail ==
    /\ pc \in {"process", "commit", "exit"}
    /\ pc' = "failed"
    /\ history' = IF pc = "exit" THEN history ELSE "fresh"
    /\ db' = rollback(db, sess, pending)
    /\ CycleOver
    /\ UNCHANGED <<running, poll_count, clock, disruptions, last_commit>>
    /\ UNCHANGED learner
    /\ UNCHANGED <<classifier, backfill, transfer, gateway, executed>>

\* A trigger that fires after every cycle.
sampling_due_always(count) == TRUE

\* "if self.poll_count % 10 == 0", on the count kept modulo SamplePeriod.
sampling_due(count) == count % SamplePeriod = 0

\* get_session's own commit and close; poll_cycle returns; self.poll_count += 1.
SessionExit ==
    /\ pc = "exit"
    /\ poll_count' = (poll_count + 1) % SamplePeriod
    /\ pc' = IF sampling_due(poll_count') THEN "sample" ELSE "sleep"
    /\ CycleOver
    /\ UNCHANGED <<running, clock, db, disruptions, history, last_commit>>
    /\ UNCHANGED learner
    /\ UNCHANGED <<classifier, backfill, transfer, gateway, executed>>

\* severity_learner.sample_delays_during_disruptions() as the loop calls it,
\* start to end: the samples are committed, then the estimates.
Sample ==
    /\ pc = "sample"
    /\ \E yield \in Yields(db, severity) :
          LET new == NewSamples(db, severity, yield, today)
          IN  /\ samples' = samples \o new
              /\ severity' = IF new = <<>> THEN severity
                             ELSE _update_severity_estimates(severity, samples', db, today)
    /\ pc' = "sleep"
    /\ UNCHANGED <<running, poll_count, clock, db, disruptions, history, last_commit, locals>>
    /\ UNCHANGED <<lpc, today, runs>>
    /\ UNCHANGED <<classifier, backfill, transfer, gateway, executed>>

\* A loop without the "except Exception" of start(): a failed cycle ends it.
after_sleep_unhandled(at) == IF at = "failed" THEN "stopped" ELSE "loop"

\* Where start() goes on after the sleep that follows a cycle ("sleep") or the
\* one in "except Exception" ("failed"): back to the loop test.
after_sleep(at) == "loop"

\* time.sleep(self.poll_interval), after a cycle or after a failed one.
Sleep ==
    /\ pc \in {"sleep", "failed"}
    /\ clock' = Min(clock + 1, MaxTime)
    /\ pc' = after_sleep(pc)
    /\ UNCHANGED <<running, poll_count, db, disruptions, history, last_commit, locals>>
    /\ UNCHANGED learner
    /\ UNCHANGED <<classifier, backfill, transfer, gateway, executed>>

Next ==
    \/ Start
    \/ Stop
    \/ LoopExit
    \/ BeginCycle
    \/ PollFetch
    \/ FetchFail
    \/ ProcessItem
    \/ Sweep
    \/ Tick
    \/ Commit
    \/ StoreFail
    \/ SessionExit
    \/ Sample
    \/ Sleep

Spec == Init /\ [][Next]_vars

\* The poll loop over payloads that may hold a disruption whose summary is null.
ErrItems ==
    { Item(1, {"victoria"}, LastUpdate("aware", 1), <<"signal", "failure">>, FALSE),
      Item(2, {"victoria", "dlr"}, LastUpdate("absent", NULL), <<"signal", "failure">>, FALSE),
      Item(2, {"victoria"}, LastUpdate("aware", 1), <<>>, TRUE) }

ErrPollFetch == Fetch(SeqsUpTo(ErrItems, MaxItems))

ErrNext ==
    \/ Start
    \/ Stop
    \/ LoopExit
    \/ BeginCycle
    \/ ErrPollFetch
    \/ FetchFail
    \/ ProcessItem
    \/ Sweep
    \/ Tick
    \/ Commit
    \/ StoreFail
    \/ SessionExit
    \/ Sample
    \/ Sleep

ErrSpec == Init /\ [][ErrNext]_vars

\* The poll loop over payloads whose disruptions name several lines: two known
\* lines and an unknown one, an unknown line alone, one known line.
FanItems ==
    { Item(1, {"victoria", "central", "dlr"}, LastUpdate("aware", 1), <<"signal", "failure">>, FALSE),
      Item(2, {"dlr"}, LastUpdate("absent", NULL), <<"signal", "failure">>, FALSE),
      Item(1, {"victoria"}, LastUpdate("aware", 2), <<"line", "suspended">>, FALSE) }

FanPollFetch == Fetch(SeqsUpTo(FanItems, MaxItems))

FanNext ==
    \/ Start
    \/ Stop
    \/ LoopExit
    \/ BeginCycle
    \/ FanPollFetch
    \/ FetchFail
    \/ ProcessItem
    \/ Sweep
    \/ Tick
    \/ Commit
    \/ StoreFail
    \/ SessionExit
    \/ Sample
    \/ Sleep

FanSpec == Init /\ [][FanNext]_vars

\* "while self.running" is true and poll_cycle() is called, the call counted.
CountedCycle ==
    /\ pc = "loop"
    /\ loop_condition
    /\ pc' = "poll"
    /\ executed' = (executed + 1) % SamplePeriod
    /\ UNCHANGED <<running, poll_count, clock, db, disruptions, history, last_commit, locals>>
    /\ UNCHANGED learner
    /\ UNCHANGED <<classifier, backfill, transfer, gateway>>

TrigPollFetch == Fetch(SeqsUpTo(Items, LoopItems))

\* The poll loop with its cycles counted.
TrigNext ==
    \/ Start
    \/ Stop
    \/ LoopExit
    \/ CountedCycle
    \/ TrigPollFetch
    \/ FetchFail
    \/ ProcessItem
    \/ Sweep
    \/ Tick
    \/ Commit
    \/ StoreFail
    \/ SessionExit
    \/ Sample
    \/ Sleep

TrigSpec == Init /\ [][TrigNext]_vars

\* The poll loop over the payloads of at most LoopItems disruptions.
LoopPollFetch == Fetch(SeqsUpTo(Items, LoopItems))

LoopNext ==
    \/ Start
    \/ Stop
    \/ LoopExit
    \/ BeginCycle
    \/ LoopPollFetch
    \/ FetchFail
    \/ ProcessItem
    \/ Sweep
    \/ Tick
    \/ Commit
    \/ StoreFail
    \/ SessionExit
    \/ Sample
    \/ Sleep

\* The monitor is one thread that keeps running: every step of it, other than
\* a failure, is taken when it stays possible; signals may or may not arrive.
FairSpec ==
    /\ Init
    /\ [][LoopNext]_vars
    /\ WF_vars(Start \/ LoopExit \/ BeginCycle \/ LoopPollFetch \/ ProcessItem
                  \/ Sweep \/ Commit \/ SessionExit \/ Sample \/ Sleep)

---------------------------------------------------------------------------
(* The learner on its own: sampling runs over a store that holds open      *)
(* disruptions with a severity level, in the two commits of a run.         *)

LearnerRow(created, level) ==
    [ _create_disruption(_generate_disruption_id(Item(created, {"victoria"},
                             LastUpdate("aware", 1), <<>>, FALSE), 1), 1,
                         Item(created, {"victoria"}, LastUpdate("aware", 1), <<>>, FALSE),
                         [is_full_suspension |-> FALSE, is_partial_suspension |-> FALSE])
      EXCEPT !.severity_level = level ]

\* Two open disruptions and one resolved at time 0.
LearnerRows ==
    << LearnerRow(1, 0), LearnerRow(2, 6),
       [LearnerRow(3, 6) EXCEPT !.actual_end_time = 0] >>

\* The severity table as earlier runs may have left it: the seeded rows, with
\* the confidence and the sample count of level 6 as past updates set them.
PersistedSeverity ==
    { [level \in DOMAIN _load_severity_definitions |->
          [ _load_severity_definitions[level] EXCEPT
              !.confidence_score = IF level = 6 THEN p[1] ELSE @,
              !.sample_count     = IF level = 6 THEN p[2] ELSE @ ]] :
      p \in { <<InitialConfidence, 0>>,
              <<InitialConfidence + ConfidenceStep, 2 * min_samples_for_update>>,
              <<high_confidence_threshold, 0>>,
              <<high_confidence_threshold, SampleCountCap>> } }

\* The samples behind a persisted sample count: taken before the window.
PersistedSamples(sev) ==
    IF sev[6].sample_count = 0 THEN <<>>
    ELSE << [ disruption_id          |-> 2,
              measured_delay_seconds |-> 300,
              count                  |-> sev[6].sample_count,
              timestamp              |-> 0 - WindowDays - 1 ] >>

LearnerInit ==
    /\ running = FALSE
    /\ poll_count = 0
    /\ pc = "start"
    /\ clock = 0
    /\ db = LearnerRows
    /\ sess = <<>>
    /\ pending = <<>>
    /\ disruptions = <<>>
    /\ idx = 0
    /\ active_disruption_ids = {}
    /\ stats = NoStats
    /\ history = "fresh"
    /\ last_commit = 0
    /\ severity \in PersistedSeverity
    /\ samples = PersistedSamples(severity)
    /\ lpc = "idle"
    /\ today = 0
    /\ runs = 0
    /\ NoBatch

\* sample_delays_during_disruptions up to its first commit: the samples of
\* the open disruptions are added and committed when there are any.
LearnerSample ==
    /\ lpc \in {"idle", "failed"}
    /\ runs < MaxRuns
    /\ \E yield \in Yields(db, severity) :
          LET new == NewSamples(db, severity, yield, today)
          IN  /\ samples' = samples \o new
              /\ lpc' = IF new = <<>> THEN "idle" ELSE "update"
    /\ runs' = runs + 1
    /\ UNCHANGED <<severity, today>>
    /\ UNCHANGED monitor
    /\ UNCHANGED <<classifier, backfill, transfer, gateway, executed>>

\* _update_severity_estimates and the second commit.
LearnerUpdate ==
    /\ lpc = "update"
    /\ severity' = _update_severity_estimates(severity, samples, db, today)
    /\ lpc' = "idle"
    /\ UNCHANGED <<samples, today, runs>>
    /\ UNCHANGED monitor
    /\ UNCHANGED <<classifier, backfill, transfer, gateway, executed>>

\* The update or its commit raises: get_session rolls the update back; the
\* samples were committed before.
LearnerUpdateFail ==
    /\ lpc = "update"
    /\ lpc' = "failed"
    /\ UNCHANGED <<severity, samples, today, runs>>
    /\ UNCHANGED monitor
    /\ UNCHANGED <<classifier, backfill, transfer, gateway, executed>>

\* A day passes between two runs.
Elapse ==
    /\ lpc \in {"idle", "failed"}
    /\ today < MaxDay
    /\ today' = today + 1
    /\ UNCHANGED <<severity, samples, lpc, runs>>
    /\ UNCHANGED monitor
    /\ UNCHANGED <<classifier, backfill, transfer, gateway, executed>>

LearnerNext ==
    \/ LearnerSample
    \/ LearnerUpdate
    \/ LearnerUpdateFail
    \/ Elapse

LearnerSpec == LearnerInit /\ [][LearnerNext]_vars


---------------------------------------------------------------------------
(* DisruptionDelayDeriver: the backfill of historical delays from resolved *)
(* disruptions.  Its clock counts ticks, TicksPerHour of them in an hour.  *)

\* phase2_config.severity_delay_mapping, for three of its labels.
severity_delay_mapping ==
    [label \in {"Good Service", "Minor Delays", "Severe Delays"} |->
        IF label = "Good Service" THEN 0 ELSE IF label = "Minor Delays" THEN 5 ELSE 15]

\* "self.severity_mapping.get(disruption.severity, 10)".
DefaultDelay == 10

DelayOf(label) ==
    IF label \in DOMAIN severity_delay_mapping THEN severity_delay_mapping[label]
    ELSE DefaultDelay

\* The rows of live_disruptions a backfill may find: one service, a label
\* that maps to minutes, to zero or to nothing, a start time that is or is
\* not on the hour, and no end yet or an end 0, 1.5 or 3 hours later.
BackfillRows ==
    { [ service_id      |-> 1,
        severity        |-> label,
        start_time      |-> start,
        actual_end_time |-> IF length = NULL THEN NULL ELSE start + length ] :
      label \in {"Minor Delays", "Good Service", "Bus Service"},
      start \in 0..MaxStart,
      length \in {NULL, 0, TicksPerHour + 1, 3 * TicksPerHour} }

\* "while current < end".
InWindow_inclusive(current, end) == current <= end

InWindow(current, end) == current < end

\* _record_exists: the session does not autoflush, so the query finds the
\* committed rows only.
_record_exists(rows, service_id, timestamp) ==
    \E i \in 1..Len(rows) :
        rows[i].service_id = service_id /\ rows[i].timestamp = timestamp

\* The HistoricalDelay of one hour (day_of_week and is_peak_hour are left out).
HistoricalDelay(disruption, current, delay_minutes) ==
    [ service_id       |-> disruption.service_id,
      timestamp        |-> current,
      delay_minutes    |-> delay_minutes,
      severity         |-> disruption.severity,
      hour_of_day      |-> (current \div TicksPerHour) % 24,
      data_source      |-> "disruption_derived",
      confidence_level |-> "low" ]

\* The while loop of _create_delay_records from current on: the rows added.
RECURSIVE HourlyRecords(_, _, _, _)
HourlyRecords(rows, disruption, delay_minutes, current) ==
    IF InWindow(current, disruption.actual_end_time)
    THEN (IF _record_exists(rows, disruption.service_id, current) THEN <<>>
          ELSE << HistoricalDelay(disruption, current, delay_minutes) >>)
         \o HourlyRecords(rows, disruption, delay_minutes, current + TicksPerHour)
    ELSE <<>>

_create_delay_records(rows, disruption) ==
    IF DelayOf(disruption.severity) = 0 THEN <<>>
    ELSE HourlyRecords(rows, disruption, DelayOf(disruption.severity),
                       disruption.start_time)

\* The query of derive_delays_from_disruptions: the resolved rows, those
\* resolved at or after since_timestamp when one is given.
ResolvedSince(rows, since_timestamp) ==
    SelectSeq(rows, LAMBDA d : /\ d.actual_end_time # NULL
                               /\ (since_timestamp # NULL
                                      => d.actual_end_time >= since_timestamp))

BackfillInit ==
    /\ running = FALSE
    /\ poll_count = 0
    /\ pc = "start"
    /\ clock = 0
    /\ db = <<>>
    /\ sess = <<>>
    /\ pending = <<>>
    /\ disruptions = <<>>
    /\ idx = 0
    /\ active_disruption_ids = {}
    /\ stats = NoStats
    /\ history = "fresh"
    /\ last_commit = 0
    /\ severity = <<>>
    /\ samples = <<>>
    /\ lpc = "idle"
    /\ today = 0
    /\ runs = 0
    /\ item = NULL
    /\ classification = <<>>
    /\ resolved \in UNION { [1..n -> BackfillRows] : n \in 1..MaxResolved }
    /\ hist = <<>>
    /\ hpending = <<>>
    /\ todo = <<>>
    /\ bpc = "idle"
    /\ bruns = 0
    /\ tstats = <<>>
    /\ tsess = <<>>
    /\ tpending = <<>>
    /\ ttodo = <<>>
    /\ tpc = "idle"
    /\ truns = 0
    /\ NoRequest
    /\ executed = 0

\* backfill_from_disruptions opens a session and the query is made, for all
\* time or since a cut-off.
BackfillStart ==
    /\ bpc = "idle"
    /\ bruns < MaxBackfills
    /\ \E since_timestamp \in {NULL, 3 * TicksPerHour} :
          todo' = ResolvedSince(resolved, since_timestamp)
    /\ hpending' = <<>>
    /\ bpc' = "derive"
    /\ bruns' = bruns + 1
    /\ UNCHANGED <<resolved, hist>>
    /\ UNCHANGED <<monitor, learner, classifier, transfer, gateway, executed>>

\* One pass of the for loop: _create_delay_records on the next disruption.
BackfillItem ==
    /\ bpc = "derive"
    /\ todo # <<>>
    /\ hpending' = hpending \o _create_delay_records(hist, Head(todo))
    /\ todo' = Tail(todo)
    /\ UNCHANGED <<resolved, hist, bpc, bruns>>
    /\ UNCHANGED <<monitor, learner, classifier, transfer, gateway, executed>>

\* self.session.commit() after the loop.
BackfillCommit ==
    /\ bpc = "derive"
    /\ todo = <<>>
    /\ hist' = hist \o hpending
    /\ hpending' = <<>>
    /\ bpc' = "idle"
    /\ UNCHANGED <<resolved, todo, bruns>>
    /\ UNCHANGED <<monitor, learner, classifier, transfer, gateway, executed>>

\* A store operation of the run raises: get_session rolls the run back.
BackfillFail ==
    /\ bpc = "derive"
    /\ hpending' = <<>>
    /\ todo' = <<>>
    /\ bpc' = "idle"
    /\ UNCHANGED <<resolved, hist, bruns>>
    /\ UNCHANGED <<monitor, learner, classifier, transfer, gateway, executed>>

BackfillNext ==
    \/ BackfillStart
    \/ BackfillItem
    \/ BackfillCommit
    \/ BackfillFail

BackfillSpec == BackfillInit /\ [][BackfillNext]_vars

---------------------------------------------------------------------------
(* TransferStatisticsComputer: the transfer statistics of the service      *)
(* pairs at interchange stops.  A weighted differential is kept in         *)
(* quarters of a minute; mean_delay and success_rate are kept as fractions *)
(* <<numerator, denominator>>; the variance and the deviation are left out.*)

\* phase2_config.min_sample_size
min_sample_size == 10

\* "limit(1000)" of _get_delays_for_service, scaled down to the histories
\* explored here (at most MaxStamp records for a service).
QueryLimit == 11

\* The edges table: stop 1 is served by the services 1 and 2, stop 2 by 1 only.
Edges ==
    { [from_stop_id |-> 1, to_stop_id |-> 2, service_id |-> 1],
      [from_stop_id |-> 1, to_stop_id |-> 3, service_id |-> 2],
      [from_stop_id |-> 2, to_stop_id |-> 1, service_id |-> 1] }

_find_interchange_stops ==
    {stop \in {e.from_stop_id : e \in Edges} :
        Cardinality({e.service_id : e \in {x \in Edges : x.from_stop_id = stop}}) > 1}

_get_services_at_stop(stop_id) ==
    {e.service_id : e \in {x \in Edges : x.from_stop_id = stop_id \/ x.to_stop_id = stop_id}}

\* The (stop, from_service, to_service) triples a run visits, each of them once.
Triples ==
    SetToSeq({ triple \in _find_interchange_stops
                             \X {e.service_id : e \in Edges}
                             \X {e.service_id : e \in Edges} :
                  /\ triple[2] \in _get_services_at_stop(triple[1])
                  /\ triple[3] \in _get_services_at_stop(triple[1])
                  /\ triple[2] # triple[3] })

\* The historical delays of one service: a record at each hour of lo..hi, its
\* delay and confidence constant or alternating with the hour.
History(service_id, lo, hi, delays, confidences) ==
    [k \in 1..(hi - lo + 1) |->
        [ service_id       |-> service_id,
          timestamp        |-> lo + k - 1,
          delay_minutes    |-> delays[((lo + k - 1) % 2) + 1],
          severity         |-> "Minor Delays",
          hour_of_day      |-> (lo + k - 1) % 24,
          data_source      |-> IF confidences[((lo + k - 1) % 2) + 1] = "high"
                               THEN "arrival_measured" ELSE "disruption_derived",
          confidence_level |-> confidences[((lo + k - 1) % 2) + 1] ]]

Histories(service_id) ==
    { History(service_id, span[1], span[2], delays, confidences) :
        span \in { <<1, 0>>, <<1, MaxStamp>>, <<1, MaxStamp - 3>>, <<4, MaxStamp>> },
        delays \in { <<5, 5>>, <<15, 5>> },
        confidences \in { <<"low", "low">>, <<"high", "high">>, <<"high", "low">> } }

\* The rows of rows in descending order of timestamp, at most n of them.
RECURSIVE Latest(_, _)
Latest(rows, n) ==
    IF n = 0 \/ rows = {} THEN <<>>
    ELSE LET top == CHOOSE r \in rows : \A q \in rows : q.timestamp <= r.timestamp
         IN  <<top>> \o Latest(rows \ {top}, n - 1)

_get_delays_for_service(rows, service_id) ==
    Latest({rows[i] : i \in {j \in 1..Len(rows) : rows[j].service_id = service_id}},
           QueryLimit)

\* A weight that ignores the confidence.
Weight_flat(confidence) == 2

\* Twice the per-side weight: 1.0 for 'high', 0.5 otherwise.
Weight(confidence) == IF confidence = "high" THEN 2 ELSE 1

Abs(x) == IF x < 0 THEN 0 - x ELSE x

\* diff = abs(delay_from - delay_to) * (weight_from + weight_to) / 2, in quarters.
Differential(from, to) ==
    Abs(from.delay_minutes - to.delay_minutes)
        * (Weight(from.confidence_level) + Weight(to.confidence_level))

\* _calculate_delay_differentials: one differential for each record of
\* delays_from whose timestamp is a timestamp of delays_to.
RECURSIVE _calculate_delay_differentials(_, _)
_calculate_delay_differentials(delays_from, delays_to) ==
    IF delays_from = <<>> THEN <<>>
    ELSE LET from  == Head(delays_from)
             match == {i \in 1..Len(delays_to) : delays_to[i].timestamp = from.timestamp}
         IN  (IF match = {} THEN <<>>
              ELSE << Differential(from, delays_to[CHOOSE i \in match : TRUE]) >>)
             \o _calculate_delay_differentials(Tail(delays_from), delays_to)

RECURSIVE Sum(_)
Sum(s) == IF s = <<>> THEN 0 ELSE Head(s) + Sum(Tail(s))

\* A test that lets any non-empty list of differentials through.
Insufficient_empty(delay_diffs) == Len(delay_diffs) < 1

\* "if len(delay_diffs) < self.min_samples"
Insufficient(delay_diffs) == Len(delay_diffs) < min_sample_size

\* The values _compute_transfer_stat writes for the differentials, at time now.
Statistic(delay_diffs, now) ==
    [ mean_delay    |-> <<Sum(delay_diffs), 4 * Len(delay_diffs)>>,
      sample_count  |-> Len(delay_diffs),
      success_rate  |-> <<Cardinality({i \in 1..Len(delay_diffs) : delay_diffs[i] < 4 * 5}),
                          Len(delay_diffs)>>,
      last_computed |-> now ]

\* _get_existing_stat: the session does not autoflush, only flushed rows are found.
_get_existing_stat(rows, triple) ==
    {i \in 1..Len(rows) : /\ rows[i].stop_id = triple[1]
                          /\ rows[i].from_service_id = triple[2]
                          /\ rows[i].to_service_id = triple[3]}

\* _compute_transfer_stat: the session's rows and added rows after it.
_compute_transfer_stat(rows, added, delays, triple, now) ==
    LET delays_from == _get_delays_for_service(delays, triple[2])
        delays_to   == _get_delays_for_service(delays, triple[3])
        delay_diffs == _calculate_delay_differentials(delays_from, delays_to)
        existing    == _get_existing_stat(rows, triple)
        stat        == Statistic(delay_diffs, now)
    IN  IF delays_from = <<>> \/ delays_to = <<>> \/ Insufficient(delay_diffs)
        THEN [rows |-> rows, added |-> added]
        ELSE IF existing # {}
        THEN [rows  |-> [i \in 1..Len(rows) |->
                            IF i = (CHOOSE j \in existing : TRUE)
                            THEN [rows[i] EXCEPT !.mean_delay    = stat.mean_delay,
                                                 !.sample_count  = stat.sample_count,
                                                 !.success_rate  = stat.success_rate,
                                                 !.last_computed = stat.last_computed]
                            ELSE rows[i]],
              added |-> added]
        ELSE [rows  |-> rows,
              added |-> Append(added, [ stop_id         |-> triple[1],
                                        from_service_id |-> triple[2],
                                        to_service_id   |-> triple[3],
                                        mean_delay      |-> stat.mean_delay,
                                        sample_count    |-> stat.sample_count,
                                        success_rate    |-> stat.success_rate,
                                        last_computed   |-> stat.last_computed ])]

\* A row of transfer_statistics an earlier run left for the pair 1 -> 2.
EarlierStatistic ==
    [ stop_id         |-> 1,
      from_service_id |-> 1,
      to_service_id   |-> 2,
      mean_delay      |-> <<40, 40>>,
      sample_count    |-> 10,
      success_rate    |-> <<10, 10>>,
      last_computed   |-> 0 ]

TransferInit ==
    /\ running = FALSE
    /\ poll_count = 0
    /\ pc = "start"
    /\ clock = 0
    /\ db = <<>>
    /\ sess = <<>>
    /\ pending = <<>>
    /\ disruptions = <<>>
    /\ idx = 0
    /\ active_disruption_ids = {}
    /\ stats = NoStats
    /\ history = "fresh"
    /\ last_commit = 0
    /\ severity = <<>>
    /\ samples = <<>>
    /\ lpc = "idle"
    /\ today = 0
    /\ runs = 0
    /\ item = NULL
    /\ classification = <<>>
    /\ resolved = <<>>
    /\ \E from \in Histories(1), to \in Histories(2) : hist = from \o to
    /\ hpending = <<>>
    /\ todo = <<>>
    /\ bpc = "idle"
    /\ bruns = 0
    /\ tstats \in { <<>>, <<EarlierStatistic>> }
    /\ tsess = <<>>
    /\ tpending = <<>>
    /\ ttodo = <<>>
    /\ tpc = "idle"
    /\ truns = 0
    /\ NoRequest
    /\ executed = 0

\* main / compute_all_transfers: a session is opened and the pairs are found.
TransferStart ==
    /\ tpc = "idle"
    /\ truns < MaxTransfers
    /\ tpc' = "compute"
    /\ truns' = truns + 1
    /\ ttodo' = Triples
    /\ tsess' = tstats
    /\ tpending' = <<>>
    /\ UNCHANGED <<tstats, hist>>
    /\ UNCHANGED <<monitor, learner, classifier, gateway, executed>>
    /\ UNCHANGED <<resolved, hpending, todo, bpc, bruns>>

\* _compute_for_stop: one ordered pair of services at a stop.
TransferPair ==
    /\ tpc = "compute"
    /\ ttodo # <<>>
    /\ LET r == _compute_transfer_stat(tsess, tpending, hist, Head(ttodo), truns)
       IN  /\ tsess' = r.rows
           /\ tpending' = r.added
    /\ ttodo' = Tail(ttodo)
    /\ UNCHANGED <<tstats, tpc, truns, hist>>
    /\ UNCHANGED <<monitor, learner, classifier, gateway, executed>>
    /\ UNCHANGED <<resolved, hpending, todo, bpc, bruns>>

\* "self.session.commit()" after the last stop.
TransferCommit ==
    /\ tpc = "compute"
    /\ ttodo = <<>>
    /\ tstats' = tsess \o tpending
    /\ tsess' = <<>>
    /\ tpending' = <<>>
    /\ tpc' = "idle"
    /\ UNCHANGED <<ttodo, truns, hist>>
    /\ UNCHANGED <<monitor, learner, classifier, gateway, executed>>
    /\ UNCHANGED <<resolved, hpending, todo, bpc, bruns>>

\* The commit raises: get_session rolls the session back.
TransferFail ==
    /\ tpc = "compute"
    /\ ttodo = <<>>
    /\ tstats' = rollback(tstats, tsess, tpending)
    /\ tsess' = <<>>
    /\ tpending' = <<>>
    /\ tpc' = "idle"
    /\ UNCHANGED <<ttodo, truns, hist>>
    /\ UNCHANGED <<monitor, learner, classifier, gateway, executed>>
    /\ UNCHANGED <<resolved, hpending, todo, bpc, bruns>>

TransferNext ==
    \/ TransferStart
    \/ TransferPair
    \/ TransferCommit
    \/ TransferFail

TransferSpec == TransferInit /\ [][TransferNext]_vars

---------------------------------------------------------------------------
(* DisruptionAnalyzer.analyze_disruption on its own *)

\* The words the texts of the payloads are made of.
Words == {"Suspended", "no", "service", "Between", "part", "closure", "delays"}

Entry(ordinal, naptanId) == [ordinal |-> ordinal, naptanId |-> naptanId]

\* The affected routes of the payloads: none, one whose sequence is out of
\* order, one without a sequence before one with, one with a stop that has no
\* naptanId before a complete one.
RouteSections ==
    { <<>>,
      << <<Entry(2, "B"), Entry(1, "A")>> >>,
      << <<>>, <<Entry(1, "A")>> >>,
      << <<Entry(1, None), Entry(2, "B")>>, <<Entry(1, "C"), Entry(2, "D")>> >> }

\* The payloads handed to the classifier: every text of up to two words of
\* description, one of summary and one of closure text, and one payload whose
\* summary is null.
ClassifierItems ==
    { [Item(1, {"victoria"}, LastUpdate("absent", NULL), summary, FALSE)
          EXCEPT !.description = description, !.closureText = closureText, !.routes = routes] :
        description \in SeqsUpTo(Words, 2), summary \in SeqsUpTo(Words, 1),
        closureText \in SeqsUpTo(Words, 1), routes \in RouteSections }
    \cup { Item(1, {"victoria"}, LastUpdate("absent", NULL), <<>>, TRUE) }

ClassifierInit ==
    /\ running = FALSE
    /\ poll_count = 0
    /\ pc = "start"
    /\ clock = 0
    /\ db = <<>>
    /\ sess = <<>>
    /\ pending = <<>>
    /\ disruptions = <<>>
    /\ idx = 0
    /\ active_disruption_ids = {}
    /\ stats = NoStats
    /\ history = "fresh"
    /\ last_commit = 0
    /\ severity = <<>>
    /\ samples = <<>>
    /\ lpc = "idle"
    /\ today = 0
    /\ runs = 0
    /\ item \in ClassifierItems
    /\ classification = <<>>
    /\ resolved = <<>>
    /\ hist = <<>>
    /\ hpending = <<>>
    /\ todo = <<>>
    /\ bpc = "idle"
    /\ bruns = 0
    /\ tstats = <<>>
    /\ tsess = <<>>
    /\ tpending = <<>>
    /\ ttodo = <<>>
    /\ tpc = "idle"
    /\ truns = 0
    /\ NoRequest
    /\ executed = 0

\* analyze_disruption returns.
Analyze ==
    /\ classification = <<>>
    /\ ~item.malformed
    /\ classification' = << analyze_disruption(item) >>
    /\ UNCHANGED <<item, monitor, learner, backfill, transfer, gateway, executed>>

\* analyze_disruption raises on a text field that is null.
AnalyzeFail ==
    /\ classification = <<>>
    /\ item.malformed
    /\ classification' = << "raised" >>
    /\ UNCHANGED <<item, monitor, learner, backfill, transfer, gateway, executed>>

ClassifierNext ==
    \/ Analyze
    \/ AnalyzeFail

ClassifierSpec == ClassifierInit /\ [][ClassifierNext]_vars

---------------------------------------------------------------------------
(* TflClient._execute_request: one request and its retries *)

\* "max_retries = 3"
max_retries == 3

\* What requests.get / raise_for_status may meet at one attempt.
Outcome(kind, status_code) == [kind |-> kind, status_code |-> status_code]

Outcomes ==
    { Outcome("ok", 200), Outcome("timeout", 0), Outcome("connection", 0) }
    \cup { Outcome("http", status_code) : status_code \in {400, 404, 429, 500, 502, 503, 504} }

\* "e.response.status_code == 504"
RetriedStatus(status_code) == status_code = 504

\* The except clauses: is the failure of this attempt followed by a sleep and
\* another attempt?
Retried(outcome, attempt) ==
    /\ attempt < max_retries - 1
    /\ \/ outcome.kind \in {"timeout", "connection"}
       \/ outcome.kind = "http" /\ RetriedStatus(outcome.status_code)

\* "wait_time = 2 ** attempt"
wait_time(attempt) == 2 ^ attempt

RetryInit ==
    /\ running = FALSE
    /\ poll_count = 0
    /\ pc = "start"
    /\ clock = 0
    /\ db = <<>>
    /\ sess = <<>>
    /\ pending = <<>>
    /\ disruptions = <<>>
    /\ idx = 0
    /\ active_disruption_ids = {}
    /\ stats = NoStats
    /\ history = "fresh"
    /\ last_commit = 0
    /\ severity = <<>>
    /\ samples = <<>>
    /\ lpc = "idle"
    /\ today = 0
    /\ runs = 0
    /\ item = NULL
    /\ classification = <<>>
    /\ resolved = <<>>
    /\ hist = <<>>
    /\ hpending = <<>>
    /\ todo = <<>>
    /\ bpc = "idle"
    /\ bruns = 0
    /\ tstats = <<>>
    /\ tsess = <<>>
    /\ tpending = <<>>
    /\ ttodo = <<>>
    /\ tpc = "idle"
    /\ truns = 0
    /\ gpc = "attempt"
    /\ outcomes = <<>>
    /\ waits = <<>>
    /\ executed = 0

\* One pass of "for attempt in range(max_retries)" that meets outcome.
Attempt(outcome) ==
    /\ gpc = "attempt"
    /\ Len(outcomes) < max_retries
    /\ outcomes' = Append(outcomes, outcome)
    /\ IF outcome.kind = "ok"
       THEN gpc' = "returned" /\ UNCHANGED waits
       ELSE IF Retried(outcome, Len(outcomes))
       THEN gpc' = "attempt" /\ waits' = Append(waits, wait_time(Len(outcomes)))
       ELSE gpc' = "raised" /\ UNCHANGED waits
    /\ UNCHANGED <<monitor, learner, classifier, backfill, transfer, executed>>

\* "return response.json()"
Respond == Attempt(Outcome("ok", 200))

\* "except requests.exceptions.Timeout"
TimeoutRaised == Attempt(Outcome("timeout", 0))

\* "except requests.exceptions.HTTPError"
HTTPErrorRaised == \E outcome \in {o \in Outcomes : o.kind = "http"} : Attempt(outcome)

\* "except requests.RequestException"
RequestFailed == Attempt(Outcome("connection", 0))

RetryNext ==
    \/ Respond
    \/ TimeoutRaised
    \/ HTTPErrorRaised
    \/ RequestFailed

RetrySpec == RetryInit /\ [][RetryNext]_vars

---------------------------------------------------------------------------
(* Properties of the poll cycle *)

\* Every disruption of payload p carries a lastUpdate that parses with an offset.
AllAware(p) == \A k \in 1..Len(p) : p[k].lastUpdate.kind = "aware"

\* The fingerprints some disruption of payload p maps to.
PayloadFingerprints(p) == UNION {Fingerprints(p[k]) : k \in 1..Len(p)}

\* The step is the commit of a poll cycle.
CommitStep == pc = "commit" /\ pc' = "exit"

\* The fields a resolved record is said to keep.
Frozen(row) ==
    <<row.actual_end_time, row.description, row.summary, row.closure_text,
      row.is_full_suspension, row.is_partial_suspension, row.severity_level>>

\* C1, as stated: a cycle whose payload is that of the cycle committed just
\* before reports an updated count of zero and changes no stored record, for
\* every payload.
C1_IdempotentForEveryPayload ==
    [][ (CommitStep /\ history = "repeat") => (stats.updated = 0 /\ db' = db) ]_vars

\* C1, amended: a cycle whose payload is that of the cycle committed just
\* before, and in which every disruption carries a lastUpdate that parses
\* with an offset, reports an updated count of zero, creates nothing and
\* changes no stored record.
C1_IdempotentWhenTimestamped ==
    [][ (CommitStep /\ history = "repeat" /\ AllAware(disruptions))
            => (stats.updated = 0 /\ stats.new = 0 /\ db' = db) ]_vars

\* A repeated, timestamped, non-empty payload has been committed over the
\* records the first pass stored.
C1_RepeatCommitted ==
    /\ pc = "exit"
    /\ history = "repeated"
    /\ disruptions # <<>>
    /\ AllAware(disruptions)
    /\ \E i \in 1..Len(db) : db[i].tfl_disruption_id \in PayloadFingerprints(disruptions)

\* C2: a record that is open when a cycle commits, and to whose fingerprint no
\* disruption of the cycle's payload maps, is resolved by that commit, with a
\* resolved-at between the time of the previous commit and the time of this one.
C2_ResolvedOnAbsence ==
    [][ CommitStep =>
          \A i \in 1..Len(db) :
              ( /\ db[i].actual_end_time = NULL
                /\ db[i].tfl_disruption_id \notin PayloadFingerprints(disruptions) )
              => /\ db'[i].actual_end_time # NULL
                 /\ last_commit <= db'[i].actual_end_time
                 /\ db'[i].actual_end_time <= clock ]_vars

\* A cycle has committed a resolution stamped strictly after the previous
\* commit and strictly before its own.
C2_ResolutionCommitted ==
    /\ pc = "exit"
    /\ stats.resolved > 0
    /\ \E i \in 1..Len(db) :
          /\ db[i].actual_end_time # NULL
          /\ db[i].tfl_disruption_id \notin PayloadFingerprints(disruptions)
          /\ 0 < db[i].actual_end_time
          /\ db[i].actual_end_time < clock

\* C3, as stated: once a record is resolved no step changes its resolved-at,
\* its description, summary or closure text, or its classification and
\* severity fields.
C3_ResolvedIsTerminal ==
    [][ \A i \in 1..Len(db) :
            db[i].actual_end_time # NULL => Frozen(db'[i]) = Frozen(db[i]) ]_vars

\* C4, as stated: the store holds at most one record per fingerprint, and a
\* cycle reaches its commit with at most one record per fingerprint in its
\* session, so that the commit passes.
C4_OneRecordPerFingerprint ==
    /\ UniqueIds(db)
    /\ pc = "commit" => UniqueIds(sess \o pending)

\* The records of the session resolved by the cycle in progress.
ResolvedNow ==
    {i \in 1..Len(sess) : sess[i].actual_end_time # NULL /\ db[i].actual_end_time = NULL}

\* C5: a cycle holds resolutions of its own only once every disruption of the
\* payload has been processed; no record it resolved has its fingerprint in
\* the active-id set; no record resolved before is open in it; no record it
\* created is resolved.
C5_SweepAfterProcessing ==
    /\ ResolvedNow # {} => (pc \in {"commit", "exit"} /\ idx > Len(disruptions))
    /\ \A i \in ResolvedNow : sess[i].tfl_disruption_id \notin active_disruption_ids
    /\ \A i \in 1..Len(sess) :
          db[i].actual_end_time # NULL => sess[i].actual_end_time = db[i].actual_end_time
    /\ \A j \in 1..Len(pending) : pending[j].actual_end_time = NULL

\* A cycle at its commit has created a record, kept one open and resolved one.
C5_CreatedAndResolved ==
    /\ pc = "commit"
    /\ ResolvedNow # {}
    /\ pending # <<>>
    /\ active_disruption_ids # {}

\* C6: the store changes only in the commit of a cycle, which writes all the
\* rows of the session together; a cycle that fails leaves the store as it was.
C6_AtomicCycle ==
    [][ /\ db' # db => (CommitStep /\ db' = sess \o pending)
        /\ pc' = "failed" => db' = db ]_vars

\* A cycle in progress holds mutations of its own while items remain.
C6_PartialInSession ==
    /\ pc = "process"
    /\ idx <= Len(disruptions)
    /\ (sess # db \/ pending # <<>>)

---------------------------------------------------------------------------
(* Properties of the poll loop *)

\* C7: a failed cycle is followed by the sleep and the loop test, never by the
\* end of the loop; unless the stop flag is set, a further cycle begins.
C7_LoopSurvivesFailure ==
    /\ [][ (pc = "failed" /\ pc' # pc)
              => (pc' = "loop" /\ clock' = Min(clock + 1, MaxTime)) ]_vars
    /\ (pc = "failed") ~> (pc = "poll" \/ ~running)

\* A cycle has failed over a store that holds records, with the flag set.
C7_FailedWhileRunning == pc = "failed" /\ running /\ db # <<>>

\* C8: stop() changes the flag and nothing else; with the flag cleared no cycle
\* begins and the flag stays cleared; the loop ends.
C8_CooperativeShutdown ==
    /\ [][ (running /\ ~running') => (pc' = pc /\ db' = db /\ UNCHANGED locals) ]_vars
    /\ [][ (~running /\ pc # "start") => (~running' /\ ~(pc = "loop" /\ pc' = "poll")) ]_vars
    /\ (~running /\ pc # "start") ~> (pc = "stopped")

\* A cycle has committed new records with the flag cleared.
C8_CommittedAfterStop == ~running /\ pc = "exit" /\ pending # <<>>

---------------------------------------------------------------------------
(* Properties of the learner *)

\* The step applies the update rule.
UpdateStep == lpc = "update" /\ lpc' = "idle"

\* C9: every step leaves the confidence of every level at or above its value
\* before and at most at the cap, and no confidence is below the initial one.
C9_ConfidenceMonotoneCapped ==
    [][ \A level \in DOMAIN severity :
            /\ InitialConfidence <= severity[level].confidence_score
            /\ severity[level].confidence_score <= severity'[level].confidence_score
            /\ severity'[level].confidence_score <= ConfidenceCap ]_vars

\* Updates over two runs' samples have brought a level to the cap.
C9_UpdatedAtCap ==
    /\ lpc = "idle"
    /\ severity[6].confidence_score = ConfidenceCap
    /\ severity[6].sample_count >= 2 * min_samples_for_update

\* The disruption that owns a batch of samples, and its severity record.
Owner(b) == db[b.disruption_id]

\* C11, as stated: every sample a run stores is owned by a disruption that is
\* open when the run reads it, whose severity record has a confidence below
\* the high-confidence threshold.
C11_SampledBelowThreshold ==
    [][ \A i \in (Len(samples) + 1)..Len(samples') :
            /\ Owner(samples'[i]).actual_end_time = NULL
            /\ severity[Owner(samples'[i]).severity_level].confidence_score
                   < high_confidence_threshold ]_vars

\* C11, amended: every sample a run stores is owned by a disruption that is
\* open when the run reads it, whose severity record is not both at or above
\* the high-confidence threshold and holding 100 samples or more.
C11_SampledUnlessWellSampled ==
    [][ \A i \in (Len(samples) + 1)..Len(samples') :
            /\ Owner(samples'[i]).actual_end_time = NULL
            /\ Owner(samples'[i]).severity_level \in DOMAIN severity
            /\ ~ ( /\ severity[Owner(samples'[i]).severity_level].confidence_score
                          >= high_confidence_threshold
                   /\ severity[Owner(samples'[i]).severity_level].sample_count
                          >= SampleCountCap ) ]_vars

\* A run has just stored samples for a level at the threshold.
C11_SampledAtThreshold ==
    /\ lpc = "update"
    /\ samples # <<>>
    /\ samples[Len(samples)].timestamp = today
    /\ severity[Owner(samples[Len(samples)]).severity_level].confidence_score
           >= high_confidence_threshold

\* C10, as stated: every update of a level whose stored estimate is a number
\* stores the blend of that stored estimate with the mean of the window.
C10_BlendOfStoredEstimate ==
    [][ UpdateStep =>
          \A level \in Updated(severity, samples, db, today) :
              severity[level].estimated_delay_minutes # NULL
              => severity'[level].estimated_delay_minutes =
                     Blend(severity[level].estimated_delay_minutes,
                           severity[level].confidence_score,
                           SampleCount(RecentSamples(samples, db, level, today)),
                           SampleSum(RecentSamples(samples, db, level, today))) ]_vars

---------------------------------------------------------------------------
(* Properties of the backfill *)

\* The step is one pass of the backfill's loop, over the disruption Head(todo).
DeriveStep == bpc = "derive" /\ bpc' = "derive" /\ todo # <<>> /\ todo' = Tail(todo)

\* The historical delays the step adds to the session, as indexes of hpending'.
Derived == (Len(hpending) + 1)..Len(hpending')

\* The service of disruption d has no historical delay yet.
NoDelayYet(d) ==
    /\ \A i \in 1..Len(hist) : hist[i].service_id # d.service_id
    /\ \A i \in 1..Len(hpending) : hpending[i].service_id # d.service_id

\* The timestamps start, start + 1h, start + 2h, ... before the end of d.
HoursOf(d) ==
    {t \in d.start_time..(d.actual_end_time - 1) :
        (t - d.start_time) % TicksPerHour = 0}

\* The step adds one record for each hour of d and no other, each tagged as
\* derived with low confidence and carrying delay_minutes.
DerivesHourly(d, delay_minutes) ==
    /\ Cardinality(Derived) = Cardinality(HoursOf(d))
    /\ \A t \in HoursOf(d) : \E i \in Derived : hpending'[i].timestamp = t
    /\ \A i \in Derived :
          /\ hpending'[i].service_id = d.service_id
          /\ hpending'[i].data_source = "disruption_derived"
          /\ hpending'[i].confidence_level = "low"
          /\ hpending'[i].delay_minutes = delay_minutes

\* C12, as stated: the store holds at most one historical delay record per
\* (service, timestamp).
C12_OneDelayPerServiceHour ==
    \A i, j \in 1..Len(hist) :
        (hist[i].service_id = hist[j].service_id /\ hist[i].timestamp = hist[j].timestamp)
            => i = j

\* C13, as stated: for a resolved disruption whose service has no delay record
\* yet, and whose label the mapping knows, the backfill creates exactly one
\* record for each hour from its start and before its end, tagged as derived
\* with low confidence, with the delay the mapping gives the label.
C13_DerivesMappedDelay ==
    [][ (DeriveStep /\ NoDelayYet(Head(todo))
            /\ Head(todo).severity \in DOMAIN severity_delay_mapping)
            => DerivesHourly(Head(todo), severity_delay_mapping[Head(todo).severity]) ]_vars

\* C13, amended: for a resolved disruption whose service has no delay record
\* yet, the backfill creates no record when the mapping gives its label 0
\* minutes; otherwise it creates exactly one record for each hour from its
\* start and before its end, tagged as derived with low confidence, with the
\* delay the mapping gives the label, or 10 minutes for a label it does not know.
C13_DerivesNonZeroDelay ==
    [][ (DeriveStep /\ NoDelayYet(Head(todo)))
            => IF DelayOf(Head(todo).severity) = 0
               THEN Derived = {}
               ELSE DerivesHourly(Head(todo), DelayOf(Head(todo).severity)) ]_vars

\* A disruption of three hours has given the session exactly three records.
C13_ThreeHoursThreeRecords ==
    /\ bpc = "derive"
    /\ hist = <<>>
    /\ Len(hpending) = 3
    /\ hpending[3].timestamp = hpending[1].timestamp + 2 * TicksPerHour
    /\ \E i \in 1..Len(resolved) :
          /\ resolved[i].actual_end_time = resolved[i].start_time + 3 * TicksPerHour
          /\ resolved[i].start_time = hpending[1].timestamp
          /\ hpending[1].delay_minutes = DelayOf(resolved[i].severity)

\* C14, as stated: every historical delay record the backfill writes has a
\* timestamp on the hour.
C14_HourAligned ==
    \A i \in 1..Len(hist) : hist[i].timestamp % TicksPerHour = 0

---------------------------------------------------------------------------
(* Properties of the transfer statistics *)

\* The timestamps of the historical delays of a service.
Stamps(service_id) ==
    {hist[i].timestamp : i \in {j \in 1..Len(hist) : hist[j].service_id = service_id}}

\* The timestamps two services share.
SharedStamps(from_service, to_service) == Stamps(from_service) \cap Stamps(to_service)

\* The timestamps of the QueryLimit most recent records of a service.
RecentStamps(service_id) ==
    {t \in Stamps(service_id) :
        Cardinality({u \in Stamps(service_id) : u > t}) < QueryLimit}

RecentSharedStamps(from_service, to_service) ==
    RecentStamps(from_service) \cap RecentStamps(to_service)

DelayAt(service_id, t) ==
    hist[CHOOSE i \in 1..Len(hist) : hist[i].service_id = service_id /\ hist[i].timestamp = t]

\* |delay_from - delay_to| * w at a shared timestamp, in quarters of a minute.
WeightedAt(from_service, to_service, t) ==
    LET from == DelayAt(from_service, t)
        to   == DelayAt(to_service, t)
        gap  == IF from.delay_minutes < to.delay_minutes
                THEN to.delay_minutes - from.delay_minutes
                ELSE from.delay_minutes - to.delay_minutes
        highs == Cardinality({c \in {<<1, from.confidence_level>>, <<2, to.confidence_level>>} :
                                 c[2] = "high"})
    IN  gap * (2 + highs)

RECURSIVE WeightedTotal(_, _, _)
WeightedTotal(from_service, to_service, stamps) ==
    IF stamps = {} THEN 0
    ELSE LET t == CHOOSE x \in stamps : TRUE
         IN  WeightedAt(from_service, to_service, t)
                 + WeightedTotal(from_service, to_service, stamps \ {t})

RowsFor(rows, triple) ==
    {i \in 1..Len(rows) : /\ rows[i].stop_id = triple[1]
                          /\ rows[i].from_service_id = triple[2]
                          /\ rows[i].to_service_id = triple[3]}

\* The rows hold exactly one row for the triple, its mean_delay the mean of the
\* weighted differentials over stamps and its sample_count their number.
OneRowOver(rows, triple, stamps) ==
    /\ Cardinality(RowsFor(rows, triple)) = 1
    /\ \A i \in RowsFor(rows, triple) :
          /\ rows[i].sample_count = Cardinality(stamps)
          /\ rows[i].mean_delay[1] * 4 * Cardinality(stamps)
                = WeightedTotal(triple[2], triple[3], stamps) * rows[i].mean_delay[2]

TransferCommitStep ==
    /\ tpc = "compute"
    /\ ttodo = <<>>
    /\ tpc' = "idle"
    /\ tstats' = tsess \o tpending

\* C15: a pair of services that shares fewer than min_sample_size timestamps
\* has no row inserted or modified by a run: the step of the pair leaves the
\* session as it was, and the end of the run leaves the rows of the triple in
\* the table as they were.
C15_NoRowBelowMinimum ==
    [][ /\ ( /\ tpc = "compute"
             /\ ttodo # <<>>
             /\ Cardinality(SharedStamps(Head(ttodo)[2], Head(ttodo)[3])) < min_sample_size
             /\ ttodo' = Tail(ttodo) )
           => (tsess' = tsess /\ tpending' = tpending)
        /\ (tpc = "compute" /\ tpc' = "idle")
           => \A triple \in Range(Triples) :
                 Cardinality(SharedStamps(triple[2], triple[3])) < min_sample_size
                    => /\ RowsFor(tstats', triple) = RowsFor(tstats, triple)
                       /\ \A i \in RowsFor(tstats, triple) : tstats'[i] = tstats[i] ]_vars

\* C15 witness: every pair of a run has been visited, the services share some
\* but fewer than min_sample_size timestamps, and the session holds the earlier
\* row untouched and nothing to insert.
C15_EarlierRowKept ==
    /\ tpc = "compute"
    /\ ttodo = <<>>
    /\ Cardinality(SharedStamps(1, 2)) \in 1..(min_sample_size - 1)
    /\ tsess = <<EarlierStatistic>>
    /\ tpending = <<>>

\* C16 as stated: a run that commits leaves, for every triple whose services
\* share at least min_sample_size timestamps, exactly one row, with the mean
\* and the count taken over all the shared timestamps.
C16_StatisticOverAllShared ==
    [][ TransferCommitStep
           => \A triple \in Range(Triples) :
                 Cardinality(SharedStamps(triple[2], triple[3])) >= min_sample_size
                    => OneRowOver(tstats', triple, SharedStamps(triple[2], triple[3])) ]_vars

\* C16 amended: the mean and the count are taken over the timestamps shared by
\* the most recent records of the two services (as many as the query reads),
\* when there are at least min_sample_size of those.
C16_StatisticOverRecentShared ==
    [][ TransferCommitStep
           => \A triple \in Range(Triples) :
                 Cardinality(RecentSharedStamps(triple[2], triple[3])) >= min_sample_size
                    => OneRowOver(tstats', triple, RecentSharedStamps(triple[2], triple[3])) ]_vars

\* C16 witness: a second run has committed a row of the pair 1 -> 2 whose
\* differentials are not all zero and that an earlier run had left.
C16_RowUpserted ==
    /\ tpc = "idle"
    /\ truns = 2
    /\ \E i \in RowsFor(tstats, <<1, 1, 2>>) :
          /\ tstats[i].last_computed = 2
          /\ tstats[i].sample_count >= min_sample_size
          /\ tstats[i].mean_delay[1] > 0
    /\ \E from \in {hist[i] : i \in 1..Len(hist)} : from.confidence_level = "high"
    /\ \E from \in {hist[i] : i \in 1..Len(hist)} : from.confidence_level = "low"

---------------------------------------------------------------------------
(* Properties of the classifier *)

\* The description, the summary and the closure text of a payload in lower
\* case, joined by single spaces.
LowerCased(text) ==
    IF text = <<>> THEN <<"">>
    ELSE [i \in DOMAIN text |-> IF text[i] = "Suspended" THEN "suspended"
                                ELSE IF text[i] = "Between" THEN "between"
                                ELSE text[i]]

Combined(d) == LowerCased(d.description) \o LowerCased(d.summary) \o LowerCased(d.closureText)

HasSuspensionKeyword(d) ==
    \E keyword \in { <<"suspended">>, <<"no", "service">>, <<"closed">>, <<"not", "running">>,
                     <<"not", "stopping">>, <<"service", "suspended">> } :
        Contains(Combined(d), keyword)

HasPartialKeyword(d) ==
    \E keyword \in { <<"part", "suspended">>, <<"partially", "suspended">>,
                     <<"section", "closed">>, <<"between">>, <<"part", "closure">>,
                     <<"partial", "closure">> } :
        Contains(Combined(d), keyword)

Classified == Len(classification) = 1 /\ ~item.malformed

\* C17: a payload whose combined text has a suspension keyword and no partial
\* keyword is classified as a full and not a partial suspension.
C17_FullSuspension ==
    (Classified /\ HasSuspensionKeyword(item) /\ ~HasPartialKeyword(item))
        => /\ classification[1].is_full_suspension = TRUE
           /\ classification[1].is_partial_suspension = FALSE

\* C17 witness: a payload whose only keyword is a capitalised "Suspended" in
\* the closure text has been classified as a full suspension.
C17_CapitalisedSuspended ==
    /\ Classified
    /\ item.closureText = <<"Suspended">>
    /\ item.description = <<"delays">>
    /\ item.summary = <<>>
    /\ classification[1].is_full_suspension

\* C18: a payload whose combined text has both a suspension keyword and a
\* partial keyword is classified as a partial and not a full suspension.
C18_TieBreakToPartial ==
    (Classified /\ HasSuspensionKeyword(item) /\ HasPartialKeyword(item))
        => /\ classification[1].is_partial_suspension = TRUE
           /\ classification[1].is_full_suspension = FALSE

\* C18 witness: "no service" runs from the description into the summary, the
\* closure text says "Between", and the payload has been classified as partial.
C18_BothKeywordClasses ==
    /\ Classified
    /\ item.description = <<"delays", "no">>
    /\ item.summary = <<"service">>
    /\ item.closureText = <<"Between">>
    /\ classification[1].is_partial_suspension
    /\ ~classification[1].is_full_suspension

\* C19: a payload whose combined text has neither kind of keyword is classified
\* as neither, and both boundary stops of the affected section are null.
C19_OrdinaryDelay ==
    (Classified /\ ~HasSuspensionKeyword(item) /\ ~HasPartialKeyword(item))
        => /\ classification[1].is_full_suspension = FALSE
           /\ classification[1].is_partial_suspension = FALSE
           /\ classification[1].start_naptan = None
           /\ classification[1].end_naptan = None

\* C19 witness: "no" and "service" are kept apart by an empty summary, the
\* routes name their stops, and the payload has been classified as neither.
C19_NoKeywordWithRoutes ==
    /\ Classified
    /\ item.description = <<"delays", "no">>
    /\ item.summary = <<>>
    /\ item.closureText = <<"service">>
    /\ item.routes = << <<Entry(2, "B"), Entry(1, "A")>> >>
    /\ ~classification[1].is_full_suspension
    /\ ~classification[1].is_partial_suspension
    /\ classification[1].start_naptan = None

---------------------------------------------------------------------------
(* Properties of the poll cycle: a disruption that cannot be processed *)

\* Processing the disruption raises: it names a line and its summary is null.
Raising(d) == extract_line_ids(d) # {} /\ d.malformed

\* C20: the step of a disruption that raises counts one error, leaves the
\* session as it was and leaves the loop running; the commit of the cycle
\* stores the whole session, the error count is the number of disruptions that
\* raised, and every fingerprint of every other disruption has a stored record.
C20_ItemFailureIsolated ==
    [][ /\ ( /\ pc = "process"
             /\ idx <= Len(disruptions)
             /\ idx' = idx + 1
             /\ Raising(disruptions[idx]) )
           => /\ pc' = "process"
              /\ stats'.errors = stats.errors + 1
              /\ stats'.new = stats.new /\ stats'.updated = stats.updated
              /\ sess' = sess /\ pending' = pending
              /\ disruptions' = disruptions
        /\ CommitStep
           => /\ db' = sess \o pending
              /\ stats.errors = Cardinality({k \in 1..Len(disruptions) : Raising(disruptions[k])})
              /\ \A k \in 1..Len(disruptions) :
                    ~Raising(disruptions[k])
                       => \A f \in Fingerprints(disruptions[k]) :
                             \E i \in 1..Len(db') : db'[i].tfl_disruption_id = f ]_vars

\* C20 witness: a cycle whose payload held a disruption that raises before one
\* that does not has committed, with one error and one new record.
C20_CommittedDespiteError ==
    /\ pc = "exit"
    /\ Len(disruptions) = 2
    /\ Raising(disruptions[1])
    /\ ~Raising(disruptions[2])
    /\ stats.errors = 1
    /\ stats.new = 1
    /\ \A f \in Fingerprints(disruptions[2]) :
          \E i \in 1..Len(db) : db[i].tfl_disruption_id = f
    /\ \A f \in Fingerprints(disruptions[1]) :
          \A i \in 1..Len(db) : db[i].tfl_disruption_id # f

---------------------------------------------------------------------------
(* Properties of the poll cycle: one record per affected service *)

\* The fingerprint of a disruption for a service, from the service id, the
\* category, the type, the creation timestamp and the head of the description.
FingerprintOf(d, service_id) ==
    <<service_id, d.category, d.type, d.created,
      SubSeq(d.description, 1, IF Len(d.description) < 2 THEN Len(d.description) ELSE 2)>>

ServicesOf(d) == {s \in {1, 2} : \E l \in d.lineIds : l \in DOMAIN service_map /\ service_map[l] = s}

RecordsOf(rows, d, service_id) ==
    {i \in 1..Len(rows) : rows[i].tfl_disruption_id = FingerprintOf(d, service_id)}

\* C21: the step of a disruption does not fail on an unknown line, marks one
\* fingerprint per known service as active, holds a record for each and adds no
\* record of another service; a cycle that commits leaves, for every
\* disruption of its payload, exactly one record per known service, under that
\* service's fingerprint, and no record of an unknown line.
C21_OneRecordPerKnownService ==
    [][ /\ ( /\ pc = "process"
             /\ idx <= Len(disruptions)
             /\ idx' = idx + 1
             /\ ~disruptions[idx].malformed )
           => LET d == disruptions[idx]
              IN  /\ pc' = "process"
                  /\ stats'.errors = stats.errors
                  /\ active_disruption_ids'
                        = active_disruption_ids \cup {FingerprintOf(d, s) : s \in ServicesOf(d)}
                  /\ \A s \in ServicesOf(d) :
                        \E i \in RecordsOf(sess' \o pending', d, s) :
                            (sess' \o pending')[i].service_id = s
                  /\ Len(sess') = Len(sess)
                  /\ Len(pending') - Len(pending) <= Cardinality(ServicesOf(d))
                  /\ \A i \in (Len(pending) + 1)..Len(pending') :
                        pending'[i].service_id \in ServicesOf(d)
        /\ CommitStep
           => \A k \in 1..Len(disruptions) :
                 ~disruptions[k].malformed
                    => LET d == disruptions[k]
                       IN  /\ \A s \in ServicesOf(d) :
                                 /\ Cardinality(RecordsOf(db', d, s)) = 1
                                 /\ \A i \in RecordsOf(db', d, s) : db'[i].service_id = s
                           /\ Cardinality(UNION {RecordsOf(db', d, s) : s \in ServicesOf(d)})
                                 = Cardinality(ServicesOf(d))
                           /\ \A i \in 1..Len(db') : db'[i].service_id \in {1, 2} ]_vars

\* C21 witness: a cycle whose payload is one disruption naming two known lines
\* and an unknown one has committed two new records, one per known service.
C21_TwoOfThreeLines ==
    /\ pc = "exit"
    /\ Len(disruptions) = 1
    /\ disruptions[1].lineIds = {"victoria", "central", "dlr"}
    /\ stats.new = 2
    /\ stats.errors = 0
    /\ Len(db) = 2
    /\ {db[1].service_id, db[2].service_id} = {1, 2}
    /\ db[1].tfl_disruption_id # db[2].tfl_disruption_id

---------------------------------------------------------------------------
(* Properties of the gateway client *)

\* Every attempt of the request met a timeout or a 5xx response.
KeptFailing ==
    /\ outcomes # <<>>
    /\ \A k \in 1..Len(outcomes) :
          \/ outcomes[k].kind = "timeout"
          \/ outcomes[k].kind = "http" /\ outcomes[k].status_code >= 500

\* C22, as stated: a request that kept failing with timeouts or 5xx responses
\* raises only after three retries, with waits of 1s, 2s and 4s between the
\* attempts, and a request that can make no further step has returned or
\* raised.
C22_ThreeRetriesWithBackoff ==
    /\ (gpc = "raised" /\ KeptFailing) => waits = <<1, 2, 4>>
    /\ (Len(outcomes) = max_retries) => gpc \in {"returned", "raised"}

---------------------------------------------------------------------------
(* Properties of the learner: the sample count *)

\* C23, as stated: no step lowers the sample_count of a severity level.
C23_SampleCountNeverDecreases ==
    [][ \A level \in DOMAIN severity :
            severity'[level].sample_count >= severity[level].sample_count ]_vars

---------------------------------------------------------------------------
(* Properties of the poll loop: the sampling trigger *)

\* The step ends a poll cycle: poll_cycle returns or raises.
CycleEnds ==
    /\ pc \in {"poll", "process", "commit", "exit"}
    /\ pc' \in {"sample", "sleep", "failed"}

\* C24, as stated: sampling follows a cycle exactly when the cycle is the
\* 10th, 20th, ... that the loop executed.
C24_EveryTenthExecuted ==
    [][ CycleEnds => (pc' = "sample" <=> executed = 0) ]_vars

\* C24 amended: sampling follows a cycle exactly when the cycle returned
\* without raising and is the 10th, 20th, ... cycle that did; poll_count counts
\* those cycles and no others.
C24_EveryTenthCompleted ==
    [][ /\ CycleEnds
           => /\ pc' = "sample" <=> (pc' # "failed" /\ (poll_count + 1) % 10 = 0)
              /\ poll_count' = IF pc' = "failed" THEN poll_count ELSE (poll_count + 1) % 10
        /\ ~CycleEnds => (pc' = "sample" => pc = "sample")
        /\ ~CycleEnds => poll_count' = poll_count ]_vars

\* C24 witness: the sampling step is reached after ten cycles that returned,
\* the loop having executed more cycles than that.
C24_SamplingAfterFailure ==
    /\ pc = "sample"
    /\ poll_count = 0
    /\ executed # 0

---------------------------------------------------------------------------
(* Properties of the learner: which levels an update run rewrites *)

\* The stored batches of samples owned by a disruption of the level and taken
\* in the trailing window.
WindowBatches(level) ==
    {i \in 1..Len(samples) : /\ db[samples[i].disruption_id].severity_level = level
                             /\ samples[i].timestamp >= today - 7}

RECURSIVE BatchTotal(_)
BatchTotal(batches) ==
    IF batches = {} THEN 0
    ELSE LET i == CHOOSE j \in batches : TRUE
         IN  samples[i].count + BatchTotal(batches \ {i})

\* The number of samples attributed to the level in the window.
WindowSamples(level) == BatchTotal(WindowBatches(level))

\* C25: an update run leaves every level with fewer than 20 samples in the
\* window exactly as it was, and every level it changes is a non-suspension
\* level with at least 20; the run ends without an error.
C25_SparseLevelUntouched ==
    [][ UpdateStep
           => \A level \in DOMAIN severity :
                 /\ WindowSamples(level) < 20 => severity'[level] = severity[level]
                 /\ severity'[level] # severity[level]
                       => (WindowSamples(level) >= 20 /\ ~severity[level].is_suspension) ]_vars

\* C25 witness: a run has updated level 6 from its 20 samples and has left
\* level 0, which has some samples but fewer than 20, as it was seeded.
C25_OneLevelUpdatedOneSkipped ==
    /\ lpc = "idle"
    /\ WindowSamples(0) \in 1..19
    /\ severity[0] = _load_severity_definitions[0]
    /\ WindowSamples(6) = 20
    /\ severity[6].sample_count = 20
    /\ severity[6].confidence_score = InitialConfidence + ConfidenceStep

---------------------------------------------------------------------------
(* Properties of the poll loop: the records the learner samples *)

\* C26, as stated: when the loop reaches its sampling step with the severity
\* levels seeded, every open record of the store is one whose arrivals the run
\* fetches, so that a gap in them can become a stored sample of that record.
C26_OpenRecordsSampled ==
    (pc = "sample" /\ DOMAIN severity # {})
        => \A i \in 1..Len(db) :
              db[i].actual_end_time = NULL
                 => \A yield \in Yields(db, severity) : i \in DOMAIN yield

---------------------------------------------------------------------------
(* Properties of the poll cycle: a disruption that is reported again *)

\* C27, as stated: after every cycle that commits, each fingerprint of each
\* disruption of the payload that was processed without error has an open
\* record in the store.
C27_ReportedMeansOpen ==
    [][ CommitStep
           => \A k \in 1..Len(disruptions) :
                 ~disruptions[k].malformed
                    => \A f \in Fingerprints(disruptions[k]) :
                          \E i \in 1..Len(db') :
                              /\ db'[i].tfl_disruption_id = f
                              /\ db'[i].actual_end_time = NULL ]_vars

---------------------------------------------------------------------------
(* Properties of the learner: the writes of one sampling run *)

\* C28, as stated: a step that commits new delay samples commits with them the
\* severity estimates updated from them.
C28_SamplesCommittedWithEstimates ==
    [][ samples' # samples
           => severity' = _update_severity_estimates(severity, samples', db, today) ]_vars

---------------------------------------------------------------------------
(* Properties of the poll cycle: resolution and the payload *)

\* C29, as stated: a cycle that commits resolves a record only if no
\* disruption of its payload, processed or failed, maps to the record's
\* fingerprint.
C29_ResolvedOnlyIfUnreported ==
    [][ CommitStep
           => \A i \in 1..Len(db) :
                 (db[i].actual_end_time = NULL /\ db'[i].actual_end_time # NULL)
                    => db[i].tfl_disruption_id \notin PayloadFingerprints(disruptions) ]_vars

---------------------------------------------------------------------------
(* Properties of the learner: the evidence behind an update *)

\* C30, as stated: an update run changes the estimate of a level or raises its
\* confidence only if a sample attributed to the level has been stored since
\* the level was last updated (a sample of the day of that update counts).
C30_UpdatedOnlyOnNewEvidence ==
    [][ UpdateStep
           => \A level \in DOMAIN severity :
                 ( \/ severity'[level].estimated_delay_minutes
                         # severity[level].estimated_delay_minutes
                   \/ severity'[level].confidence_score > severity[level].confidence_score )
                    => \E i \in 1..Len(samples) :
                          /\ db[samples[i].disruption_id].severity_level = level
                          /\ samples[i].timestamp >= severity[level].last_updated ]_vars

====
